---- MODULE Spec2Model ----
(***************************************************************************)
(* A model of src/workspace.ts (class Workspace): the Document registry    *)
(* (buffers / creating), the buffer lifecycle handlers (onBufCreate,       *)
(* onBufUnload, the debounced _checkBuffer), the workspace root, the       *)
(* configuration reload, and the workspace edit engine (applyEdit,         *)
(* createFile, renameFile, deleteFile).                                    *)
(*                                                                         *)
(* Every `await` of the source is a point where another asynchronous call  *)
(* chain may run, so a handler is a sequence of actions, one per stretch   *)
(* of code between two awaits.                                             *)
(***************************************************************************)
EXTENDS Naturals, Integers, Sequences, FiniteSets, TLC

(***************************************************************************)
(* Bounds of the model.                                                    *)
(***************************************************************************)
\* how many Document instances one behaviour constructs
MaxDocs == 2
\* how many trigger events of one burst are told apart (the last value
\* stands for "that many or more")
MaxBurst == 2
\* how many output channels one behaviour creates
MaxChannels == 4

(***************************************************************************)
(* The small world the model runs in.                                      *)
(***************************************************************************)
\* buffer ids of the editor
Bufs == {1, 2}
\* file names (absolute paths without a trailing separator)
Names == {"a", "b", "c", "d"}
\* directories that matter for root resolution
Dirs == {"W", "P", "Q", "H"}
\* process.cwd() at start-up, and os.homedir()
Cwd == "W"
Home == "H"
\* path.dirname(fsPath) of each name
DirOf(n) == CASE n = "a" -> "P" [] n = "b" -> "P" [] n = "c" -> "Q" [] OTHER -> "H"
\* "no value": null / undefined of the source
Null == "null"
NoDoc == 0

\* callers of onBufCreate: the event bridge (BufCreate), the debounced
\* recheck, renameFile, and the two parallel calls of attach (one per buffer)
Procs == {"event", "recheck", "rename", "attach1", "attach2"}
AttachProc(b) == IF b = 1 THEN "attach1" ELSE "attach2"
DocIds == 1..MaxDocs

VARIABLES
    \* ---- editor side
    bufname,      \* bufname[b]: the file name of buffer b
    buflines,     \* buflines[b]: the lines of buffer b
    buftick,      \* buftick[b]: the change counter of buffer b
    arglist,      \* the editor's argument list (argadd)
    \* ---- Workspace fields
    buffers,      \* this.buffers: bufnr -> Document instance (NoDoc: no entry)
    creating,     \* this.creating
    docs,         \* the Document instances ever constructed
    nextDoc,      \* the next instance id
    root,         \* this._root
    initialized,  \* this._initialized
    \* ---- asynchronous call chains
    ob,           \* ob[p]: the onBufCreate call of caller p
    unl,          \* the onBufUnload call dispatched by the event bridge
    chk,          \* the debounced recheck: timer and _checkBuffer; `burst`
                  \* counts the triggers the pending timer stands for, `ran`
                  \* those of the run under way
    att,          \* attach()
    \* ---- notifications (counted)
    rootChanges,  \* how often the value of _root changed
    reloadsByRoot,\* onConfigurationChange calls made by onBufCreate
    folderFired,  \* _onDidChangeWorkspaceFolder.fire calls
    initFired,    \* _onDidWorkspaceInitialized.fire calls
    openFired,    \* _onDidOpenDocument.fire calls
    closeFired,   \* _onDidCloseDocument.fire calls
    \* ---- file system and edit engine
    fs,           \* fs[n]: what is at path n
    ed,           \* the call of the edit API (running or returned)
    \* ---- configuration
    disk,         \* the configuration files on disk
    conf,         \* this._configurations (the layer stack)
    folders,      \* the folder configuration fragments (foldConfigurations)
    lastChange,   \* the last ConfigurationChangeEvent fired
    \* ---- output channels
    outputChannels, \* this.outputChannels: name -> channel
    channelsMade,   \* the channels constructed, in order, each with its name
    \* ---- configuration files
    configFiles,    \* this.configFiles, as far as getConfigFile reads it
    \* ---- what listeners observe
    initSeen        \* what `initialized` answered to the listeners of each
                    \* onDidWorkspaceInitialized delivery

edVars  == <<arglist, fs, ed>>
bufVars == <<bufname, buflines, buftick>>
cfgVars == <<disk, conf, folders, lastChange>>
cntVars == <<rootChanges, reloadsByRoot, folderFired, initFired, openFired,
             closeFired>>
chanVars == <<outputChannels, channelsMade>>
auxVars == <<outputChannels, channelsMade, configFiles, initSeen>>
vars == <<bufname, buflines, buftick, arglist, buffers, creating, docs,
          nextDoc, root, initialized, ob, unl, chk, att, rootChanges,
          reloadsByRoot, folderFired, initFired, openFired, closeFired, fs,
          ed, disk, conf, folders, lastChange, outputChannels, channelsMade,
          configFiles, initSeen>>

(***************************************************************************)
(* Configuration: the layer stack {defaults, user, workspace} and the      *)
(* folder fragments.  A layer maps a section to a value; Undef is "the     *)
(* layer does not set it".                                                 *)
(***************************************************************************)
Sections == {"s", "t"}
Undef == 0
Vals == {1, 2}
Layers == [Sections -> {Undef} \cup Vals]
EmptyLayer == [k \in Sections |-> Undef]
NoFile == [exists |-> FALSE, val |-> EmptyLayer]
File(l) == [exists |-> TRUE, val |-> l]
\* resources a configuration is asked for: none, or a file
Resources == {Null, "a", "c"}

\* findUp.sync('.vim', {cwd: dir}): the directory holding the nearest .vim
\* folder (the project directories and the home directory have one)
VimDir(dir) == CASE dir = "P" -> "P" [] dir = "Q" -> "Q" [] dir = "H" -> "H" [] OTHER -> Null

\* Configurations.parseContentFromFile: a missing or broken file is an empty layer
ParseContentFromFile(f) == IF f.exists THEN f.val ELSE EmptyLayer

\* loadConfigurations(): the defaults layer is taken over from the current
\* stack, the user layer is parsed again, the workspace layer is the file
\* found upwards of the current root (unless that is the home directory)
LoadConfigurations(cur, dsk, rt) ==
    [defaults  |-> cur.defaults,
     user      |-> ParseContentFromFile(dsk.user),
     workspace |-> IF VimDir(rt) # Null /\ VimDir(rt) # Home
                   THEN ParseContentFromFile(dsk.ws[VimDir(rt)])
                   ELSE EmptyLayer]

\* the files loadConfigurations names: the plugin's settings file, the user
\* file, and the file of the .vim folder found upwards of the root
DefaultFile == "default"
UserFile == "user"
WorkspaceFile(dir) == dir
\* the entries of this.configFiles that getConfigFile reads
ReadEntries == 3
FirstEntries(files) ==
    IF Len(files) <= ReadEntries THEN files ELSE SubSeq(files, 1, ReadEntries)

\* loadConfigurations, lines 909, 923 and 930: every call appends the files
\* it read to this.configFiles
PushConfigFiles(files, rt) ==
    FirstEntries(files \o <<DefaultFile, UserFile>>
                    \o (IF VimDir(rt) # Null /\ VimDir(rt) # Home
                        THEN <<WorkspaceFile(VimDir(rt))>> ELSE <<>>))

\* getConfigFile(target) (lines 116-124); past the end of the array the
\* answer is undefined
ConfigTargets == {"Global", "User", "Workspace"}
GetConfigFile(files, target) ==
    LET i == CASE target = "Global" -> 1 [] target = "User" -> 2 [] OTHER -> 3
    IN  IF i <= Len(files) THEN files[i] ELSE Null

\* the first value that is set, scanning from the most specific layer
FirstSet(seq) ==
    LET idx == {i \in 1..Len(seq) : seq[i] # Undef}
    IN  IF idx = {} THEN Undef
        ELSE seq[CHOOSE i \in idx : \A j \in idx : i <= j]

\* Configurations.getConfiguration(section, resource): the merged value
GetConfiguration(stack, fold, section, resource) ==
    LET f == IF resource # Null /\ fold[DirOf(resource)].exists
             THEN fold[DirOf(resource)].val[section] ELSE Undef
    IN  FirstSet(<<f, stack.workspace[section], stack.user[section],
                   stack.defaults[section]>>)

AffectsConfigurationMutSame(prev, cur, fold, section, resource) ==
    GetConfiguration(cur, fold, section, resource)
        # GetConfiguration(cur, fold, section, resource)

\* the closure onConfigurationChange puts in the event: !equals(a, b)
AffectsConfiguration(prev, cur, fold, section, resource) ==
    GetConfiguration(prev, fold, section, resource)
        # GetConfiguration(cur, fold, section, resource)

\* the merged values of a stack, for every (section, resource)
MergedTable(stack, fold) ==
    [s \in Sections, r \in Resources |-> GetConfiguration(stack, fold, s, r)]

NoChange ==
    [fired |-> FALSE, prev |-> [defaults |-> EmptyLayer, user |-> EmptyLayer,
                                workspace |-> EmptyLayer],
     affects |-> [s \in Sections, r \in Resources |-> FALSE],
     before |-> [s \in Sections, r \in Resources |-> Undef],
     after |-> [s \in Sections, r \in Resources |-> Undef],
     seen |-> [s \in Sections, r \in Resources |-> Undef]]

\* onConfigurationChange(): the new stack replaces this._configurations and
\* the event is fired; `affects` is what a listener gets from
\* affectsConfiguration while the event is delivered, `before` and `after`
\* record the merged values of the stack replaced and of the stack built,
\* both asked at that time; `seen` is what the stack replaced answered while
\* it was the current one.  The folder fragments are one object: addFolderFile
\* changes it in place and the new stack is handed the same object (line 813).
ChangeEvent(prev, new, fold, seen) ==
    [fired |-> TRUE, prev |-> prev,
     affects |-> [s \in Sections, r \in Resources |->
                     AffectsConfiguration(prev, new, fold, s, r)],
     before |-> MergedTable(prev, fold),
     after |-> MergedTable(new, fold),
     seen |-> seen]

(***************************************************************************)
(* Root resolution.                                                        *)
(***************************************************************************)
\* util/fs resolveRoot(dir, markers, home): the nearest ancestor of dir that
\* holds a marker; the project directories P and Q hold one
MarkerRoot(dir) == CASE dir = "P" -> "P" [] dir = "Q" -> "Q" [] OTHER -> Null
\* dir.startsWith(root): the project directories lie under the directory the
\* editor was started in
Under(dir, r) == dir = r \/ (r = Cwd /\ dir \in {"P", "Q"})

\* Workspace.resolveRoot(uri): undefined (Null) once initialized, unless the
\* document lies outside the root or the root is the home directory
ResolveRoot(path, rt, inited) ==
    IF ~inited \/ ~Under(DirOf(path), rt) \/ rt = Home
    THEN IF MarkerRoot(DirOf(path)) # Null THEN MarkerRoot(DirOf(path)) ELSE Cwd
    ELSE Null

(***************************************************************************)
(* The Document registry and onBufCreate.                                  *)
(***************************************************************************)
FreeDoc == [st |-> "free", buf |-> 0, path |-> Null, version |-> 0]
\* an instance that is out of use: detached, or never initialized
GoneDoc == [st |-> "gone", buf |-> 0, path |-> Null, version |-> 0]
IdleOb == [pc |-> "idle", buf |-> 0, doc |-> NoDoc, old |-> NoDoc, root |-> Null,
           late |-> FALSE]
IdleUnl == [pc |-> "idle", doc |-> NoDoc]

\* the stretch of an onBufCreate call in which it is creating the Document:
\* from its entry until it registers the Document or abandons
InWindow(o) == o.pc \in {"bufloaded", "unload", "init"}

\* another call for the same buffer is in that stretch
InFlight(p, b) == \E q \in Procs \ {p} : ob[q].buf = b /\ InWindow(ob[q])

\* the model starts a call only while the Documents it and the calls under
\* way may construct are within the bound
CanStart(k) ==
    (nextDoc - 1) + Cardinality({p \in Procs : ob[p].pc \in {"bufloaded", "unload"}})
        + k <= MaxDocs

\* line 966: if (this.creating.has(buffer.id)) return
EnterGuard(b) == b \in creating

\* onBufCreate up to its first await (lines 964-967): checkBuffer.clear(),
\* the in-flight guard, then the 'bufloaded' request is sent
EnterRec(p, b) ==
    IF EnterGuard(b) THEN IdleOb
    ELSE [pc |-> "bufloaded", buf |-> b, doc |-> NoDoc, old |-> NoDoc,
          root |-> Null, late |-> InFlight(p, b)]

\* getDocument(uri) for a file uri: the first registered Document with that uri
DocsWithPath(n) == {b \in Bufs : buffers[b] # NoDoc /\ docs[buffers[b]].path = n}
GetDocument(n) ==
    IF DocsWithPath(n) = {} THEN NoDoc
    ELSE buffers[CHOOSE b \in DocsWithPath(n) : \A c \in DocsWithPath(n) : b <= c]

\* new Document(buffer, ...) (line 974)
NewDoc(b) == [st |-> "init", buf |-> b, path |-> Null, version |-> 0]

\* lines 968-977: the answer of 'bufloaded' arrived (the editor loads and
\* unloads buffers at any time, so either answer may come).  Not loaded:
\* return.  Otherwise the buffer is marked as being created; a registered Document is
\* unloaded first (onBufUnload runs up to its await of detach), else the new
\* Document is constructed and its init is awaited.
BufLoadedReply(p) ==
    LET o == ob[p] b == o.buf old == buffers[b] IN
    /\ o.pc = "bufloaded"
    /\ \E isLoaded \in BOOLEAN :
        IF ~isLoaded
        THEN /\ ob' = [ob EXCEPT ![p] = IdleOb]
             /\ UNCHANGED <<creating, buffers, docs, nextDoc>>
        ELSE /\ creating' = creating \cup {b}
             /\ IF old # NoDoc
                THEN /\ buffers' = [buffers EXCEPT ![b] = NoDoc]
                     /\ docs' = [docs EXCEPT ![old].st = "detaching"]
                     /\ ob' = [ob EXCEPT ![p].pc = "unload", ![p].doc = old,
                                          ![p].old = old]
                     /\ UNCHANGED nextDoc
                ELSE /\ docs' = [docs EXCEPT ![nextDoc] = NewDoc(b)]
                     /\ nextDoc' = nextDoc + 1
                     /\ ob' = [ob EXCEPT ![p].pc = "init", ![p].doc = nextDoc]
                     /\ UNCHANGED buffers
    /\ UNCHANGED <<bufVars, edVars, cfgVars, cntVars, root, initialized, unl, chk,
                   att, auxVars>>

UnloadReplyMutKeepOld(p) ==
    LET o == ob[p] IN
    /\ o.pc = "unload"
    /\ docs' = [docs EXCEPT ![nextDoc] = NewDoc(o.buf)]
    /\ nextDoc' = nextDoc + 1
    /\ ob' = [ob EXCEPT ![p].pc = "init", ![p].doc = nextDoc]
    /\ UNCHANGED <<bufVars, edVars, cfgVars, cntVars, buffers, creating, root,
                   initialized, unl, chk, att, auxVars>>

\* lines 973-977: the old Document is detached and its close notification
\* fired; then the new Document is constructed and its init is awaited
UnloadReply(p) ==
    LET o == ob[p] IN
    /\ o.pc = "unload"
    /\ docs' = [docs EXCEPT ![o.doc] = GoneDoc, ![nextDoc] = NewDoc(o.buf)]
    /\ nextDoc' = nextDoc + 1
    /\ ob' = [ob EXCEPT ![p].pc = "init", ![p].doc = nextDoc]
    /\ closeFired' = closeFired + 1
    /\ UNCHANGED <<bufVars, edVars, cfgVars, rootChanges, reloadsByRoot,
                   folderFired, initFired, openFired, buffers, creating, root,
                   initialized, unl, chk, att, auxVars>>

ClearMarkerMutKeep(cr, b) == cr

\* this.creating.delete(buffer.id) (lines 979, 983 and 988)
ClearMarker(cr, b) == cr \ {b}

\* what document.init answers: created, not created, or an exception
InitOutcomes == {"created", "refused", "throw"}

\* lines 978-986: init refused or threw: the marker is cleared, nothing is
\* registered
InitFailed(p) ==
    LET o == ob[p] IN
    /\ o.pc = "init"
    /\ \E r \in InitOutcomes \ {"created"} :
          docs' = [docs EXCEPT ![o.doc] = GoneDoc]
    /\ creating' = ClearMarker(creating, o.buf)
    /\ ob' = [ob EXCEPT ![p] = IdleOb]
    /\ UNCHANGED <<bufVars, edVars, cfgVars, cntVars, buffers, nextDoc, root,
                   initialized, unl, chk, att, auxVars>>

\* line 991: if (root && this._root !== root)
NeedsRoot(r, rt) == r # Null /\ rt # r

\* lines 987-991 and 1005: init created the Document: it is registered, the
\* marker is cleared; with a new root the look-up of the folder file is
\* awaited, else the open notification is fired and the call is done
InitCreated(p) ==
    LET o == ob[p] b == o.buf
        r == ResolveRoot(bufname[b], root, initialized) IN
    /\ o.pc = "init"
    /\ "created" \in InitOutcomes
    /\ docs' = [docs EXCEPT ![o.doc] =
                   [st |-> "live", buf |-> b, path |-> bufname[b],
                    version |-> buftick[b]]]
    /\ buffers' = [buffers EXCEPT ![b] = o.doc]
    /\ creating' = ClearMarker(creating, b)
    /\ ob' = IF NeedsRoot(r, root)
             THEN [ob EXCEPT ![p].pc = "findup", ![p].root = r]
             ELSE [ob EXCEPT ![p] = IdleOb]
    /\ openFired' = IF NeedsRoot(r, root) THEN openFired ELSE openFired + 1
    /\ UNCHANGED <<bufVars, edVars, cfgVars, rootChanges, reloadsByRoot,
                   folderFired, initFired, closeFired, nextDoc, root,
                   initialized, unl, chk, att, auxVars>>

\* lines 992-999: the folder's coc-settings.json, when it exists, is added
\* to the folder fragments (Configurations.addFolderFile)
AddFolderFile(fold, dsk, r) ==
    IF VimDir(r) # Null /\ VimDir(r) # Home /\ dsk.ws[VimDir(r)].exists
    THEN [fold EXCEPT ![VimDir(r)] = File(ParseContentFromFile(dsk.ws[VimDir(r)]))]
    ELSE fold

\* lines 992-1005: after the awaits the root is set, the configuration is
\* reloaded, the folder change and the open notification are fired
RootApply(p) ==
    LET o == ob[p] IN
    /\ o.pc = "findup"
    /\ folders' = AddFolderFile(folders, disk, o.root)
    /\ root' = o.root
    /\ conf' = LoadConfigurations(conf, disk, o.root)
    /\ lastChange' = ChangeEvent(conf, conf', folders', MergedTable(conf, folders))
    /\ rootChanges' = IF root # o.root THEN rootChanges + 1 ELSE rootChanges
    /\ reloadsByRoot' = reloadsByRoot + 1
    /\ folderFired' = folderFired + 1
    /\ openFired' = openFired + 1
    /\ ob' = [ob EXCEPT ![p] = IdleOb]
    /\ configFiles' = PushConfigFiles(configFiles, o.root)
    /\ UNCHANGED <<bufVars, edVars, disk, initFired, closeFired, buffers,
                   creating, docs, nextDoc, initialized, unl, chk, att,
                   chanVars, initSeen>>

(***************************************************************************)
(* The event bridge: one editor event is handled at a time.                *)
(***************************************************************************)
EventIdle == ob["event"].pc = "idle" /\ unl.pc = "idle"

\* the debounce timer at rest
IdleChk == [pending |-> FALSE, pc |-> "idle", burst |-> 0, ran |-> 0]

ClearCheckMutNone(c) == c

\* this.checkBuffer.clear() (line 964): a pending timer is cancelled
ClearCheck(c) == [c EXCEPT !.pending = FALSE, !.burst = 0]

\* events.on('BufCreate', this.onBufCreate): onBufCreate up to its first await
EvBufCreate(b) ==
    /\ EventIdle
    /\ CanStart(1)
    /\ chk' = ClearCheck(chk)
    /\ ob' = [ob EXCEPT !["event"] = EnterRec("event", b)]
    /\ UNCHANGED <<bufVars, edVars, cfgVars, cntVars, buffers, creating, docs,
                   nextDoc, root, initialized, unl, att, auxVars>>

EvBufUnloadMutKeepEntry(b) ==
    /\ EventIdle
    /\ buffers[b] # NoDoc
    /\ docs' = [docs EXCEPT ![buffers[b]].st = "detaching"]
    /\ unl' = [pc |-> "detach", doc |-> buffers[b]]
    /\ UNCHANGED <<bufVars, edVars, cfgVars, cntVars, buffers, creating, nextDoc,
                   root, initialized, ob, chk, att, auxVars>>

\* onBufUnload (lines 1022-1026) up to its await of doc.detach(); without an
\* entry for the buffer the handler does nothing (line 1024)
EvBufUnload(b) ==
    /\ EventIdle
    /\ IF buffers[b] = NoDoc
       THEN UNCHANGED <<buffers, docs, unl>>
       ELSE /\ buffers' = [buffers EXCEPT ![b] = NoDoc]
            /\ docs' = [docs EXCEPT ![buffers[b]].st = "detaching"]
            /\ unl' = [pc |-> "detach", doc |-> buffers[b]]
    /\ UNCHANGED <<bufVars, edVars, cfgVars, cntVars, creating, nextDoc, root,
                   initialized, ob, chk, att, auxVars>>

\* onBufUnload (lines 1026-1029): detach is done, the close notification fired
UnloadDetached ==
    /\ unl.pc = "detach"
    /\ docs' = [docs EXCEPT ![unl.doc] = GoneDoc]
    /\ unl' = IdleUnl
    /\ closeFired' = closeFired + 1
    /\ UNCHANGED <<bufVars, edVars, cfgVars, rootChanges, reloadsByRoot,
                   folderFired, initFired, openFired, buffers, creating, nextDoc,
                   root, initialized, ob, chk, att, auxVars>>

\* events.on('CursorHold' / 'TextChanged', this.checkBuffer): the debounce
\* timer is armed
EvTrigger ==
    /\ EventIdle
    /\ ~chk.pending
    /\ chk' = [chk EXCEPT !.pending = TRUE, !.burst = 1]
    /\ UNCHANGED <<bufVars, edVars, cfgVars, cntVars, buffers, creating, docs,
                   nextDoc, root, initialized, ob, unl, att, auxVars>>

\* a further trigger within the debounce window: the pending timer is armed
\* again, nothing else of the Workspace changes
EvTriggerAgain ==
    /\ EventIdle
    /\ chk.pending
    /\ chk.burst < MaxBurst
    /\ chk' = [chk EXCEPT !.burst = @ + 1]
    /\ UNCHANGED <<bufVars, edVars, cfgVars, cntVars, buffers, creating, docs,
                   nextDoc, root, initialized, ob, unl, att, auxVars>>

\* lines 77-81 and 1075: the timer fires, _checkBuffer starts and waits
TimerFire ==
    /\ chk.pending
    /\ chk.pc = "idle"
    /\ ob["recheck"].pc = "idle"
    /\ chk' = [pending |-> FALSE, pc |-> "wait", burst |-> 0, ran |-> chk.burst]
    /\ UNCHANGED <<bufVars, edVars, cfgVars, cntVars, buffers, creating, docs,
                   nextDoc, root, initialized, ob, unl, att, auxVars>>

\* _checkBuffer (lines 1076-1079): b is the editor's current buffer; a
\* registered buffer is left alone, a missing one is created
CheckBuffer(b) ==
    /\ chk.pc = "wait"
    /\ IF buffers[b] # NoDoc
       THEN /\ chk' = [chk EXCEPT !.pc = "idle", !.ran = 0]
            /\ UNCHANGED <<ob>>
       ELSE /\ CanStart(1)
            /\ chk' = [ClearCheck(chk) EXCEPT !.pc = "idle", !.ran = 0]
            /\ ob' = [ob EXCEPT !["recheck"] = EnterRec("recheck", b)]
    /\ UNCHANGED <<bufVars, edVars, cfgVars, cntVars, buffers, creating, docs,
                   nextDoc, root, initialized, unl, att, auxVars>>

\* attach (lines 763-767): onBufCreate is called for every buffer of the
\* editor, all of them in parallel (Promise.all)
AttachStart ==
    /\ att = "idle"
    /\ \A b \in Bufs : ob[AttachProc(b)].pc = "idle"
    /\ CanStart(Cardinality(Bufs))
    /\ chk' = ClearCheck(chk)
    /\ ob' = [p \in Procs |->
                IF \E b \in Bufs : p = AttachProc(b)
                THEN EnterRec(p, CHOOSE b \in Bufs : p = AttachProc(b))
                ELSE ob[p]]
    /\ att' = "wait"
    /\ UNCHANGED <<bufVars, edVars, cfgVars, cntVars, buffers, creating, docs,
                   nextDoc, root, initialized, unl, auxVars>>

\* attach (lines 768-771): all creations are done; when the workspace is
\* not initialized yet the notification is fired, its listeners run, and
\* then _initialized is set
AttachDone ==
    /\ att = "wait"
    /\ \A b \in Bufs : ob[AttachProc(b)].pc = "idle"
    /\ att' = "idle"
    /\ initFired' = IF initialized THEN initFired ELSE initFired + 1
    /\ initSeen' = IF initialized THEN initSeen ELSE Append(initSeen, initialized)
    /\ initialized' = TRUE
    /\ UNCHANGED <<bufVars, edVars, cfgVars, rootChanges, reloadsByRoot,
                   folderFired, openFired, closeFired, buffers, creating, docs,
                   nextDoc, root, ob, unl, chk, chanVars, configFiles>>

(***************************************************************************)
(* The file system, uris and text edits.                                   *)
(***************************************************************************)
NoEntry == [kind |-> "none", lines |-> <<>>, n |-> 0]
FileEntry(l) == [kind |-> "file", lines |-> l, n |-> 0]
DirEntry(k) == [kind |-> "dir", lines |-> <<>>, n |-> k]

\* a uri: its scheme, the file name of its path, and whether the path ends
\* with a separator (Uri.parse(uri).fsPath keeps it)
Uri(sch, nm, sl) == [scheme |-> sch, name |-> nm, slash |-> sl]
FileUri(nm) == Uri("file", nm, FALSE)
NoUri == Uri("none", "a", FALSE)

\* statAsync / fs.existsSync of a path: a regular file is not found under a
\* path with a trailing separator
Stat(fsys, nm, sl) == IF sl /\ fsys[nm].kind = "file" THEN NoEntry ELSE fsys[nm]
Exists(fsys, u) == Stat(fsys, u.name, u.slash).kind # "none"

\* util isSupportedScheme
IsSupportedScheme(sch) == sch \in {"file", "untitled"}

\* getDocument(uri): Documents carry file uris without a trailing separator
GetDocumentUri(u) ==
    IF u.scheme = "file" /\ ~u.slash THEN GetDocument(u.name) ELSE NoDoc

\* a text edit replaces one line; TextDocument.applyEdits applies them in order
ReplaceLine(lines, e) ==
    IF e.line <= Len(lines) THEN [lines EXCEPT ![e.line] = e.text]
    ELSE Append(lines, e.text)
RECURSIVE ApplyEdits(_, _)
ApplyEdits(lines, edits) ==
    IF edits = <<>> THEN lines
    ELSE ApplyEdits(ReplaceLine(lines, Head(edits)), Tail(edits))
\* the edits every text change of the model carries
TheEdits == <<[line |-> 1, text |-> "z"]>>

WriteBackMutEditsOnly(fsys, n, edits) ==
    [fsys EXCEPT ![n] = FileEntry(ApplyEdits(<<>>, edits))]

\* applyEdit lines 316-320 and 334-338: the file is read, the edits are
\* applied to its content, the result is written back
WriteBack(fsys, n, edits) ==
    [fsys EXCEPT ![n] = FileEntry(ApplyEdits(@.lines, edits))]

\* null of a TextDocumentEdit's version
NullVersion == -1
Truthy(v) == v # NullVersion /\ v # 0

(***************************************************************************)
(* WorkspaceEdit values.                                                   *)
(***************************************************************************)
Op(t, u, u2, v, ow, ig, rc) ==
    [t |-> t, uri |-> u, newUri |-> u2, version |-> v, overwrite |-> ow,
     ignore |-> ig, recursive |-> rc]
TextDocumentEdit(u, v) == Op("edit", u, NoUri, v, FALSE, FALSE, FALSE)
CreateFile(u, ow, ig) == Op("create", u, NoUri, NullVersion, ow, ig, FALSE)
RenameFile(u, u2, ow, ig) == Op("rename", u, u2, NullVersion, ow, ig, FALSE)
DeleteFile(u, ig, rc) == Op("delete", u, NoUri, NullVersion, FALSE, ig, rc)
Unsupported == Op("other", NoUri, NoUri, NullVersion, FALSE, FALSE, FALSE)

\* overwrite / ignoreIfExists as callers set them
Flags == {<<FALSE, FALSE>>, <<TRUE, FALSE>>, <<FALSE, TRUE>>}

EditOps == {TextDocumentEdit(FileUri(n), v) :
               n \in {"a", "b"}, v \in {NullVersion, 0, 1, 2}}
CreateOps == {CreateFile(u, f[1], f[2]) :
               u \in {FileUri("c"), Uri("untitled", "c", FALSE),
                      Uri("untitled", "b", FALSE)}, f \in Flags}
RenameOps == {RenameFile(FileUri(x[1]), FileUri(x[2]), f[1], f[2]) :
               x \in {<<"a", "c">>, <<"c", "b">>, <<"a", "b">>}, f \in Flags}
DeleteOps == {DeleteFile(u, f[2], f[1]) :
               u \in {FileUri("a"), FileUri("b"), FileUri("c"),
                      Uri("file", "d", TRUE)}, f \in Flags}
Ops == EditOps \cup CreateOps \cup RenameOps \cup DeleteOps \cup {Unsupported}

WorkspaceEdit(ch, has, dc) == [changes |-> ch, hasDc |-> has, dc |-> dc]
ChangeUris == {FileUri("a"), FileUri("b"), FileUri("c"), FileUri("d"),
               Uri("http", "b", FALSE), Uri("untitled", "b", FALSE)}
\* the edits applyEdit is called with: `changes` of at most one uri with at
\* most one document change, or up to two document changes
WorkspaceEdits ==
    {WorkspaceEdit(<<>>, FALSE, <<>>), WorkspaceEdit(<<>>, TRUE, <<>>)}
    \cup {WorkspaceEdit(<<u>>, FALSE, <<>>) : u \in ChangeUris}
    \cup {WorkspaceEdit(<<u>>, TRUE, <<o>>) : u \in ChangeUris, o \in Ops}
    \cup {WorkspaceEdit(<<>>, TRUE, <<o>>) : o \in Ops}
    \cup {WorkspaceEdit(<<>>, TRUE, <<o1, o2>>) : o1 \in Ops, o2 \in Ops}

(***************************************************************************)
(* Validation (validteDocumentChanges, validateChanges).  The answer is    *)
(* "ok", "fail" (a message is shown, false is returned) or "throw" (a      *)
(* null Document is dereferenced).                                         *)
(***************************************************************************)
\* lines 831-853: one TextDocumentEdit
ValidateEdit(fsys, o) ==
    LET doc == GetDocumentUri(o.uri) IN
    IF Truthy(o.version) /\ doc = NoDoc THEN "fail"
    ELSE IF doc = NoDoc THEN "throw"
    ELSE IF docs[doc].version # o.version THEN "fail"
    ELSE IF o.version = NullVersion /\ o.uri.scheme # "file" THEN "fail"
    ELSE IF o.version = NullVersion /\ ~Exists(fsys, o.uri) THEN "fail"
    ELSE "ok"

\* lines 854-865: one CreateFile
ValidateCreate(fsys, o) ==
    IF o.uri.scheme = "file" THEN "fail"
    ELSE IF ~o.ignore /\ ~o.overwrite /\ Exists(fsys, o.uri) THEN "fail"
    ELSE "ok"

\* lines 866-873: one RenameFile
ValidateRename(fsys, o) ==
    IF ~o.overwrite /\ ~o.ignore /\ Exists(fsys, o.newUri) THEN "fail" ELSE "ok"

\* lines 874-881: one DeleteFile
ValidateDelete(fsys, o) ==
    IF ~Exists(fsys, o.uri) /\ ~o.ignore THEN "fail" ELSE "ok"

ValidateOp(fsys, o) ==
    CASE o.t = "edit"   -> ValidateEdit(fsys, o)
      [] o.t = "create" -> ValidateCreate(fsys, o)
      [] o.t = "rename" -> ValidateRename(fsys, o)
      [] o.t = "delete" -> ValidateDelete(fsys, o)
      [] OTHER          -> "fail"

\* the answer of the first entry that is not accepted
FirstBad(seq) ==
    LET bad == {i \in 1..Len(seq) : seq[i] # "ok"}
    IN  IF bad = {} THEN "ok"
        ELSE seq[CHOOSE i \in bad : \A j \in bad : i <= j]

\* validteDocumentChanges (lines 823-888)
ValidateDocumentChanges(fsys, e) ==
    IF ~e.hasDc THEN "ok"
    ELSE FirstBad([i \in 1..Len(e.dc) |-> ValidateOp(fsys, e.dc[i])])

\* lines 893-902: one uri of `changes`
ValidateChange(fsys, u) ==
    IF ~IsSupportedScheme(u.scheme) THEN "fail"
    ELSE IF GetDocumentUri(u) = NoDoc /\ ~Exists(fsys, u) THEN "fail"
    ELSE "ok"

\* validateChanges (lines 890-905)
ValidateChanges(fsys, e) ==
    FirstBad([i \in 1..Len(e.changes) |-> ValidateChange(fsys, e.changes[i])])

\* applyEdit lines 296-297: documentChanges first, then changes
Validate(fsys, e) ==
    IF ValidateDocumentChanges(fsys, e) # "ok"
    THEN ValidateDocumentChanges(fsys, e)
    ELSE ValidateChanges(fsys, e)

GetChangedFilesMutNone(e) == {}

\* getChangedFiles (lines 785-806)
GetChangedFiles(e) ==
    {e.changes[i] : i \in {j \in 1..Len(e.changes) :
          e.changes[j].scheme = "file" /\ GetDocumentUri(e.changes[j]) = NoDoc}}
    \cup {e.dc[i].uri : i \in {j \in 1..Len(e.dc) :
          e.dc[j].t = "edit" /\ e.dc[j].version = NullVersion}}

(***************************************************************************)
(* createFile, deleteFile and the file system part of renameFile.  Each    *)
(* answers the new file system, the message shown ("" for none), whether   *)
(* the call threw, and whether the operation was left undone.              *)
(***************************************************************************)
Outcome(fsys, args, msg, threw, failed, renamed) ==
    [fs |-> fsys, arglist |-> args, msg |-> msg, threw |-> threw,
     failed |-> failed, renamed |-> renamed]

CreateFileMutNoCheck(fsys, args, u, ow, ig) ==
    Outcome([fsys EXCEPT ![u.name] = FileEntry(<<>>)], args \cup {u.name}, "",
            FALSE, FALSE, FALSE)

\* createFile (lines 501-526)
CreateFileRes(fsys, args, u, ow, ig) ==
    LET stat == Stat(fsys, u.name, u.slash) IN
    IF stat.kind # "none" /\ ~ow /\ ~ig
    THEN Outcome(fsys, args, "already exists", FALSE, TRUE, FALSE)
    ELSE IF stat.kind = "none" \/ ow
    THEN IF u.slash
         THEN \* mkdirAsync fails on a path that exists
              IF fsys[u.name].kind # "none"
              THEN Outcome(fsys, args, "can't create", FALSE, TRUE, FALSE)
              ELSE Outcome([fsys EXCEPT ![u.name] = DirEntry(0)], args, "",
                           FALSE, FALSE, FALSE)
         ELSE IF GetDocument(u.name) # NoDoc
              THEN Outcome(fsys, args, "", FALSE, FALSE, FALSE)
              \* fs.writeFileSync on a directory throws, outside any try
              ELSE IF fsys[u.name].kind = "dir"
              THEN Outcome(fsys, args, "", TRUE, TRUE, FALSE)
              ELSE Outcome([fsys EXCEPT ![u.name] = FileEntry(<<>>)],
                           args \cup {u.name}, "", FALSE, FALSE, FALSE)
    ELSE Outcome(fsys, args, "", FALSE, FALSE, FALSE)

\* deleteFile (lines 553-579); the `bdelete` sent for the buffer of a deleted
\* file acts on the editor only
DeleteFileRes(fsys, args, u, ig, rc) ==
    LET stat == fsys[u.name]
        isDir == stat.kind = "dir" \/ u.slash IN
    \* line 556: stat.isDirectory() of a null stat
    IF stat.kind = "none" THEN Outcome(fsys, args, "", TRUE, ~ig, FALSE)
    ELSE IF isDir /\ ~rc
    THEN Outcome(fsys, args, "recursive not set", FALSE, TRUE, FALSE)
    ELSE IF isDir
    THEN \* fs.rmdir removes an empty directory only
         IF stat.kind = "dir" /\ stat.n = 0
         THEN Outcome([fsys EXCEPT ![u.name] = NoEntry], args, "", FALSE, FALSE, FALSE)
         ELSE Outcome(fsys, args, "error on delete", FALSE, TRUE, FALSE)
    ELSE Outcome([fsys EXCEPT ![u.name] = NoEntry], args, "", FALSE, FALSE, FALSE)

\* renameAsync(oldPath, newPath): the source must exist, and a directory
\* replaces only an empty directory, a file only a file
CanRename(fsys, old, new) ==
    /\ fsys[old].kind # "none"
    /\ \/ fsys[new].kind = "none"
       \/ old = new
       \/ fsys[old].kind = "file" /\ fsys[new].kind = "file"
       \/ fsys[old].kind = "dir" /\ fsys[new].kind = "dir" /\ fsys[new].n = 0

\* renameFile (lines 528-537 and 546-549), without the Document part;
\* `renamed` tells that renameAsync was carried out
RenameFileRes(fsys, args, u, u2, ow, ig) ==
    LET stat == Stat(fsys, u2.name, u2.slash) IN
    IF stat.kind # "none" /\ ~ow /\ ~ig
    THEN Outcome(fsys, args, "already exists", FALSE, TRUE, FALSE)
    ELSE IF stat.kind = "none" \/ ow
    THEN IF CanRename(fsys, u.name, u2.name)
         THEN Outcome(IF u.name = u2.name THEN fsys
                      ELSE [fsys EXCEPT ![u2.name] = fsys[u.name],
                                        ![u.name] = NoEntry],
                      args, "", FALSE, FALSE, TRUE)
         ELSE Outcome(fsys, args, "rename error", FALSE, TRUE, FALSE)
    ELSE Outcome(fsys, args, "", FALSE, FALSE, FALSE)

(***************************************************************************)
(* The edit API.  One call is made per behaviour; `ed` keeps what it was   *)
(* called with, the state it was made in, and how it ended.               *)
(***************************************************************************)
\* the registry as getDocument sees it: the path registered for each buffer
Registered == [b \in Bufs |-> IF buffers[b] = NoDoc THEN Null
                                ELSE docs[buffers[b]].path]
\* the version of the Document registered for each buffer
Versions == [b \in Bufs |-> IF buffers[b] = NoDoc THEN 0
                              ELSE docs[buffers[b]].version]
Snapshot == [fs |-> fs, lines |-> buflines, args |-> arglist, reg |-> Registered,
             doc |-> buffers, ver |-> Versions]
NoSnapshot == [fs |-> [n \in Names |-> NoEntry], lines |-> [b \in Bufs |-> <<>>],
               args |-> {}, reg |-> [b \in Bufs |-> Null],
               doc |-> [b \in Bufs |-> NoDoc], ver |-> [b \in Bufs |-> 0]]
NoEdit == WorkspaceEdit(<<>>, FALSE, <<>>)

\* the call before it is made
IdleEd(snap) ==
    [pc |-> "idle", api |-> "none", edit |-> NoEdit, op |-> Unsupported,
     i |-> 1, j |-> 1, changed |-> {}, valid |-> "none", asked |-> FALSE,
     msgs |-> {}, result |-> "none", failed |-> FALSE, pre |-> snap]

\* where applyEdit goes on: the next uri of `changes`, the next document
\* change, or its end (lines 307, 324, 351)
NextPc(e, i, j) ==
    IF i <= Len(e.changes) THEN "changes"
    ELSE IF e.hasDc /\ j <= Len(e.dc) THEN "dc"
    ELSE "finish"

AfterValidationMutSkipChanges(vdc, vch) == IF vdc = "ok" THEN "confirm" ELSE "done"

\* lines 296-297: if (!this.validteDocumentChanges(...)) return false
\*                if (!this.validateChanges(changes)) return false
AfterValidation(vdc, vch) == IF vdc = "ok" /\ vch = "ok" THEN "confirm" ELSE "done"

\* applyEdit, lines 293-297: both validations, before the first await
ApplyEditStart(e) ==
    LET v == Validate(fs, e)
        pc == AfterValidation(ValidateDocumentChanges(fs, e), ValidateChanges(fs, e)) IN
    /\ ed.pc = "idle"
    /\ ed' = [IdleEd(Snapshot) EXCEPT
                !.pc = IF v = "throw" THEN "done" ELSE pc,
                !.api = "applyEdit", !.edit = e, !.valid = v,
                !.msgs = IF v = "fail" /\ pc = "done" THEN {"invalid"} ELSE {},
                !.result = IF v = "throw" THEN "threw"
                           ELSE IF pc = "done" THEN "false" ELSE "none"]
    /\ UNCHANGED <<bufVars, arglist, fs, cfgVars, cntVars, buffers, creating, docs,
                   nextDoc, root, initialized, ob, unl, chk, att, auxVars>>

\* lines 298-306: the changed files are collected; with some, the user is
\* asked and any answer but yes ends the call
ApplyEditConfirm ==
    LET ch == GetChangedFiles(ed.edit) IN
    /\ ed.pc = "confirm"
    /\ \E c \in {"yes", "no"} :
          IF ch # {} /\ c = "no"
          THEN ed' = [ed EXCEPT !.pc = "done", !.result = "false", !.asked = TRUE]
          ELSE ed' = [ed EXCEPT !.pc = NextPc(ed.edit, 1, 1), !.changed = ch,
                                !.asked = (ch # {})]
    /\ UNCHANGED <<bufVars, arglist, fs, cfgVars, cntVars, buffers, creating, docs,
                   nextDoc, root, initialized, ob, unl, chk, att, auxVars>>

\* lines 308-322: the next uri of `changes`: an open Document is edited
\* through Document.applyEdits, a file is read, edited and written back
ApplyEditChange ==
    LET u == ed.edit.changes[ed.i]
        doc == GetDocumentUri(u)
        b == docs[doc].buf
        next == NextPc(ed.edit, ed.i + 1, ed.j) IN
    /\ ed.pc = "changes"
    /\ IF doc # NoDoc
       THEN /\ buflines' = [buflines EXCEPT ![b] = ApplyEdits(@, TheEdits)]
            /\ buftick' = [buftick EXCEPT ![b] = @ + 1]
            /\ docs' = [docs EXCEPT ![doc].version = buftick[b] + 1]
            /\ ed' = [ed EXCEPT !.pc = next, !.i = @ + 1]
            /\ UNCHANGED fs
       ELSE IF fs[u.name].kind = "file"
       THEN /\ fs' = WriteBack(fs, u.name, TheEdits)
            /\ ed' = [ed EXCEPT !.pc = next, !.i = @ + 1]
            /\ UNCHANGED <<buflines, buftick, docs>>
       ELSE \* fs.readFileSync throws on a directory or a missing file
            /\ ed' = [ed EXCEPT !.pc = "done", !.result = "threw", !.failed = TRUE]
            /\ UNCHANGED <<buflines, buftick, docs, fs>>
    /\ UNCHANGED <<bufname, arglist, cfgVars, cntVars, buffers, creating,
                   nextDoc, root, initialized, ob, unl, chk, att, auxVars>>

\* how a call of the edit API (its record is `base`) goes on after one of
\* its file operations answered r: a throw ends it, else applyEdit takes the
\* next document change and a direct call returns
AfterOp(base, r) ==
    LET msgs == IF r.msg = "" THEN base.msgs ELSE base.msgs \cup {r.msg} IN
    IF r.threw
    THEN [base EXCEPT !.pc = "done", !.result = "threw", !.msgs = msgs,
                      !.failed = @ \/ r.failed]
    ELSE IF base.api = "applyEdit"
    THEN [base EXCEPT !.pc = NextPc(base.edit, base.i, base.j + 1), !.j = @ + 1,
                      !.msgs = msgs, !.failed = @ \/ r.failed]
    ELSE [base EXCEPT !.pc = "done", !.result = "void", !.msgs = msgs,
                      !.failed = @ \/ r.failed]

\* lines 327-339: a TextDocumentEdit: with a version the Document found by
\* getDocument is edited, with none the file is rewritten
DcEdit ==
    LET o == ed.edit.dc[ed.j]
        doc == GetDocumentUri(o.uri)
        b == docs[doc].buf IN
    /\ ed.pc = "dc" /\ o.t = "edit"
    /\ IF o.version # NullVersion
       THEN IF doc = NoDoc
            THEN \* doc.applyEdits of a null Document
                 /\ ed' = [ed EXCEPT !.pc = "done", !.result = "threw",
                                     !.failed = TRUE]
                 /\ UNCHANGED <<buflines, buftick, docs, fs>>
            ELSE /\ buflines' = [buflines EXCEPT ![b] = ApplyEdits(@, TheEdits)]
                 /\ buftick' = [buftick EXCEPT ![b] = @ + 1]
                 /\ docs' = [docs EXCEPT ![doc].version = buftick[b] + 1]
                 /\ ed' = [ed EXCEPT !.pc = NextPc(ed.edit, ed.i, ed.j + 1),
                                     !.j = @ + 1]
                 /\ UNCHANGED fs
       ELSE IF fs[o.uri.name].kind = "file"
            THEN /\ fs' = WriteBack(fs, o.uri.name, TheEdits)
                 /\ ed' = [ed EXCEPT !.pc = NextPc(ed.edit, ed.i, ed.j + 1),
                                     !.j = @ + 1]
                 /\ UNCHANGED <<buflines, buftick, docs>>
            ELSE /\ ed' = [ed EXCEPT !.pc = "done", !.result = "threw",
                                     !.failed = TRUE]
                 /\ UNCHANGED <<buflines, buftick, docs, fs>>
    /\ UNCHANGED <<bufname, arglist, cfgVars, cntVars, buffers, creating,
                   nextDoc, root, initialized, ob, unl, chk, att, auxVars>>

\* createFile, called by applyEdit (lines 340-342) or directly
DoCreate(base, o) ==
    LET r == CreateFileRes(fs, arglist, o.uri, o.overwrite, o.ignore) IN
    /\ fs' = r.fs
    /\ arglist' = r.arglist
    /\ ed' = AfterOp(base, r)
    /\ UNCHANGED <<bufVars, cfgVars, cntVars, buffers, creating, docs, nextDoc,
                   root, initialized, ob, unl, chk, att, auxVars>>

\* deleteFile, called by applyEdit (lines 345-346) or directly
DoDelete(base, o) ==
    LET r == DeleteFileRes(fs, arglist, o.uri, o.ignore, o.recursive) IN
    /\ fs' = r.fs
    /\ ed' = AfterOp(base, r)
    /\ UNCHANGED <<bufVars, arglist, cfgVars, cntVars, buffers, creating, docs,
                   nextDoc, root, initialized, ob, unl, chk, att, auxVars>>

SetNameMutKeep(names, b, n) == names

\* doc.buffer.setName(newPath) (line 543)
SetName(names, b, n) == [names EXCEPT ![b] = n]

\* renameFile, called by applyEdit (lines 343-344) or directly: the file is
\* renamed; when the old path backs a Document its buffer is renamed
\* (buffer.setName fails when another buffer has the name) and onBufCreate
\* is called for it (lines 538-545)
DoRename(base, o) ==
    LET r == RenameFileRes(fs, arglist, o.uri, o.newUri, o.overwrite, o.ignore)
        doc == GetDocument(o.uri.name)
        b == docs[doc].buf IN
    /\ fs' = r.fs
    /\ IF r.renamed /\ doc # NoDoc
       THEN IF \E c \in Bufs \ {b} : bufname[c] = o.newUri.name
            THEN /\ ed' = AfterOp(base, [r EXCEPT !.msg = "rename error",
                                                  !.failed = TRUE])
                 /\ UNCHANGED <<bufname, ob, chk>>
            ELSE /\ CanStart(1)
                 /\ bufname' = SetName(bufname, b, o.newUri.name)
                 /\ chk' = ClearCheck(chk)
                 /\ ob' = [ob EXCEPT !["rename"] = EnterRec("rename", b)]
                 /\ ed' = [base EXCEPT !.pc = "rename"]
       ELSE /\ ed' = AfterOp(base, r)
            /\ UNCHANGED <<bufname, ob, chk>>
    /\ UNCHANGED <<buflines, buftick, arglist, cfgVars, cntVars, buffers,
                   creating, docs, nextDoc, root, initialized, unl, att,
                   auxVars>>

DcCreate == ed.pc = "dc" /\ ed.edit.dc[ed.j].t = "create"
            /\ DoCreate(ed, ed.edit.dc[ed.j])
DcRename == ed.pc = "dc" /\ ed.edit.dc[ed.j].t = "rename"
            /\ DoRename(ed, ed.edit.dc[ed.j])
DcDelete == ed.pc = "dc" /\ ed.edit.dc[ed.j].t = "delete"
            /\ DoDelete(ed, ed.edit.dc[ed.j])

\* renameFile line 544 returned: the onBufCreate it awaited is done
RenameResume ==
    /\ ed.pc = "rename"
    /\ ob["rename"].pc = "idle"
    /\ ed' = AfterOp(ed, Outcome(fs, arglist, "", FALSE, FALSE, FALSE))
    /\ UNCHANGED <<bufVars, arglist, fs, cfgVars, cntVars, buffers, creating, docs,
                   nextDoc, root, initialized, ob, unl, chk, att, auxVars>>

\* lines 349-358: the changed files are added to the argument list, the
\* cursor is restored, true is returned
ApplyEditFinish ==
    /\ ed.pc = "finish"
    /\ arglist' = arglist \cup {u.name : u \in ed.changed}
    /\ ed' = [ed EXCEPT !.pc = "done", !.result = "true",
                        !.msgs = IF ed.edit.hasDc /\ ed.edit.dc # <<>>
                                 THEN @ \cup {"documents changed"} ELSE @]
    /\ UNCHANGED <<bufVars, fs, cfgVars, cntVars, buffers, creating, docs, nextDoc,
                   root, initialized, ob, unl, chk, att, auxVars>>

\* the direct calls of createFile, deleteFile and renameFile
AllFlags == {<<x, y>> : x \in BOOLEAN, y \in BOOLEAN}
PathUris == {Uri("file", n, sl) : n \in Names, sl \in BOOLEAN}
FileUris == {FileUri(n) : n \in Names}
DirectCall(api, o) == [IdleEd(Snapshot) EXCEPT !.api = api, !.op = o]

CreateFileCall(u, f) ==
    /\ ed.pc = "idle"
    /\ DoCreate(DirectCall("createFile", CreateFile(u, f[1], f[2])),
                CreateFile(u, f[1], f[2]))

DeleteFileCall(u, f) ==
    /\ ed.pc = "idle"
    /\ DoDelete(DirectCall("deleteFile", DeleteFile(u, f[1], f[2])),
                DeleteFile(u, f[1], f[2]))

RenameFileCall(u, u2, f) ==
    /\ ed.pc = "idle"
    /\ DoRename(DirectCall("renameFile", RenameFile(u, u2, f[1], f[2])),
                RenameFile(u, u2, f[1], f[2]))

(***************************************************************************)
(* Configuration files change on disk; the file watcher calls              *)
(* onConfigurationChange.                                                  *)
(***************************************************************************)
\* what the user and the folder configuration files may hold
UserFiles == {NoFile, File([s |-> 1, t |-> Undef]), File([s |-> Undef, t |-> 2])}
FolderFiles == {NoFile, File([s |-> 2, t |-> Undef]), File([s |-> Undef, t |-> 1])}

WriteUserFile(f) ==
    /\ disk.user # f
    /\ disk' = [disk EXCEPT !.user = f]
    /\ UNCHANGED <<bufVars, edVars, conf, folders, lastChange, cntVars, buffers,
                   creating, docs, nextDoc, root, initialized, ob, unl, chk, att,
                   auxVars>>

\* the plugin's settings.json (configFiles[0], watched as the others are): a
\* new version of the plugin brings another one
DefaultFiles == {File([s |-> 1, t |-> 1]), File([s |-> 2, t |-> 1])}

WriteDefaultFile(f) ==
    /\ disk.default # f
    /\ disk' = [disk EXCEPT !.default = f]
    /\ UNCHANGED <<bufVars, edVars, conf, folders, lastChange, cntVars, buffers,
                   creating, docs, nextDoc, root, initialized, ob, unl, chk, att,
                   auxVars>>

WriteFolderFile(d, f) ==
    /\ disk.ws[d] # f
    /\ disk' = [disk EXCEPT !.ws[d] = f]
    /\ UNCHANGED <<bufVars, edVars, conf, folders, lastChange, cntVars, buffers,
                   creating, docs, nextDoc, root, initialized, ob, unl, chk, att,
                   auxVars>>

\* onConfigurationChange (lines 808-821), called by watchFiles (line 83)
OnConfigurationChange ==
    /\ conf' = LoadConfigurations(conf, disk, root)
    /\ lastChange' = ChangeEvent(conf, conf', folders, MergedTable(conf, folders))
    /\ configFiles' = PushConfigFiles(configFiles, root)
    /\ UNCHANGED <<bufVars, edVars, disk, folders, cntVars, buffers, creating,
                   docs, nextDoc, root, initialized, ob, unl, chk, att,
                   chanVars, initSeen>>

(***************************************************************************)
(* Output channels.  A channel name is a base name and the unique tokens   *)
(* appended to it; a channel is known by the order of its construction.    *)
(***************************************************************************)
ChanNames == {"x", "y", "z"}
ChanName(base, sfx) == [base |-> base, sfx |-> sfx]

\* this.outputChannels.has(name)
HasChannel(map, n) == \E e \in map : e.name = n
\* this.outputChannels.set(name, channel)
SetChannel(map, n, c) == {e \in map : e.name # n} \cup {[name |-> n, ch |-> c]}

CreateNameMutSame(map, n, u) == n

\* lines 616-618: a name that is taken gets `-${uuidv1()}` appended
CreateName(map, n, u) ==
    IF HasChannel(map, n) THEN ChanName(n.base, Append(n.sfx, u)) ELSE n

\* createOutputChannel(name) (lines 615-622); uuidv1() answers a token no
\* earlier call got, here the number of the call
CreateOutputChannel(n) ==
    LET c == Len(channelsMade) + 1
        name == CreateName(outputChannels, n, c) IN
    /\ c <= MaxChannels
    /\ outputChannels' = SetChannel(outputChannels, name, c)
    /\ channelsMade' = Append(channelsMade, name)
    /\ UNCHANGED <<bufVars, edVars, cfgVars, cntVars, buffers, creating, docs,
                   nextDoc, root, initialized, ob, unl, chk, att, configFiles,
                   initSeen>>

(***************************************************************************)
(* The state after construction (lines 40-85).                             *)
(***************************************************************************)
InitFs == [n \in Names |->
             CASE n = "a" -> FileEntry(<<"x", "y">>)
               [] n = "b" -> FileEntry(<<"x", "y">>)
               [] n = "c" -> NoEntry
               [] OTHER   -> DirEntry(1)]
InitDisk == [default |-> File([s |-> 1, t |-> 1]), user |-> NoFile,
             ws |-> [d \in Dirs |-> IF d = "P" THEN File([s |-> 2, t |-> Undef])
                                    ELSE NoFile]]
\* the constructor's loadConfigurations: nothing to take the defaults from
InitConf(dsk) ==
    LoadConfigurations([defaults |-> ParseContentFromFile(dsk.default)], dsk, Cwd)

InitEditor ==
    /\ bufname = [b \in Bufs |-> IF b = 1 THEN "a" ELSE "b"]
    /\ buflines = [b \in Bufs |-> InitFs[bufname[b]].lines]
    /\ buftick = [b \in Bufs |-> 1]
    /\ arglist = {}

InitWorkspace ==
    /\ buffers = [b \in Bufs |-> NoDoc]
    /\ creating = {}
    /\ docs = [d \in DocIds |-> FreeDoc]
    /\ nextDoc = 1
    /\ root = Cwd
    /\ initialized = FALSE
    /\ ob = [p \in Procs |-> IdleOb]
    /\ unl = IdleUnl
    /\ chk = IdleChk
    /\ att = "idle"
    /\ rootChanges = 0 /\ reloadsByRoot = 0 /\ folderFired = 0 /\ initFired = 0
    /\ openFired = 0 /\ closeFired = 0
    /\ outputChannels = {} /\ channelsMade = <<>>
    /\ initSeen = <<>>

InitConfig(dsk) ==
    /\ disk = dsk
    /\ conf = InitConf(dsk)
    /\ folders = [d \in Dirs |-> NoFile]
    /\ lastChange = NoChange
    /\ configFiles = PushConfigFiles(<<>>, Cwd)

Init ==
    /\ InitEditor
    /\ InitWorkspace
    /\ fs = InitFs
    /\ ed = IdleEd(NoSnapshot)
    /\ InitConfig(InitDisk)

(***************************************************************************)
(* Spec: the buffer lifecycle.  The event bridge, the debounced recheck    *)
(* and attach run their onBufCreate calls concurrently.                    *)
(***************************************************************************)
LifecycleProcs == Procs \ {"rename"}

OnBufCreateStep(p) ==
    \/ BufLoadedReply(p)
    \/ UnloadReply(p)
    \/ InitFailed(p)
    \/ InitCreated(p)
    \/ RootApply(p)

Next ==
    \/ \E b \in Bufs : EvBufCreate(b)
    \/ \E b \in Bufs : EvBufUnload(b)
    \/ UnloadDetached
    \/ EvTrigger
    \/ TimerFire
    \/ \E b \in Bufs : CheckBuffer(b)
    \/ AttachStart
    \/ AttachDone
    \/ \E p \in LifecycleProcs : OnBufCreateStep(p)

Spec == Init /\ [][Next]_vars

(***************************************************************************)
(* EditSpec: the edit API.  attach() has run: buffer 1 was loaded and got   *)
(* its Document, buffer 2 was not loaded.  One call of applyEdit,          *)
(* createFile, deleteFile or renameFile is made; the onBufCreate a rename  *)
(* calls runs as the call chain "rename".                                  *)
(***************************************************************************)
\* the Workspace once attach() is through (lines 762-775)
AfterAttach ==
    /\ buffers = [b \in Bufs |-> IF b = 1 THEN 1 ELSE NoDoc]
    /\ creating = {}
    /\ docs = [d \in DocIds |->
                 IF d = 1 THEN [st |-> "live", buf |-> 1, path |-> "a", version |-> 1]
                 ELSE FreeDoc]
    /\ nextDoc = 2
    /\ root = "P"
    /\ initialized = TRUE
    /\ ob = [p \in Procs |-> IdleOb]
    /\ unl = IdleUnl
    /\ chk = IdleChk
    /\ att = "idle"
    /\ rootChanges = 1 /\ reloadsByRoot = 1 /\ folderFired = 1 /\ initFired = 1
    /\ openFired = 1 /\ closeFired = 0
    /\ outputChannels = {} /\ channelsMade = <<>>
    /\ initSeen = <<FALSE>>
    /\ disk = InitDisk
    /\ conf = LoadConfigurations(InitConf(InitDisk), InitDisk, "P")
    /\ folders = AddFolderFile([d \in Dirs |-> NoFile], InitDisk, "P")
    /\ lastChange = ChangeEvent(InitConf(InitDisk), conf, folders,
                                MergedTable(InitConf(InitDisk),
                                            [d \in Dirs |-> NoFile]))
    /\ configFiles = PushConfigFiles(PushConfigFiles(<<>>, Cwd), "P")

\* the directory d is empty or holds an entry
EditFs == {InitFs, [InitFs EXCEPT !["d"] = DirEntry(0)]}

EditInit ==
    /\ InitEditor
    /\ AfterAttach
    /\ fs \in EditFs
    /\ ed = IdleEd(NoSnapshot)

EditNext ==
    \/ \E e \in WorkspaceEdits : ApplyEditStart(e)
    \/ ApplyEditConfirm
    \/ ApplyEditChange
    \/ DcEdit
    \/ DcCreate
    \/ DcRename
    \/ DcDelete
    \/ RenameResume
    \/ ApplyEditFinish
    \/ \E u \in PathUris, f \in AllFlags : CreateFileCall(u, f)
    \/ \E u \in PathUris, f \in AllFlags : DeleteFileCall(u, f)
    \/ \E u \in FileUris, u2 \in FileUris, f \in AllFlags : RenameFileCall(u, u2, f)
    \/ OnBufCreateStep("rename")

EditSpec == EditInit /\ [][EditNext]_vars

(***************************************************************************)
(* ConfigSpec: the configuration files change on disk, the watcher reloads *)
(* the configuration, and buffers opened by the editor move the root.      *)
(***************************************************************************)
ConfigNext ==
    \/ \E f \in UserFiles : WriteUserFile(f)
    \/ \E d \in {"P"}, f \in FolderFiles : WriteFolderFile(d, f)
    \/ \E f \in DefaultFiles : WriteDefaultFile(f)
    \/ OnConfigurationChange
    \/ \E b \in Bufs : EvBufCreate(b)
    \/ OnBufCreateStep("event")

ConfigSpec == Init /\ [][ConfigNext]_vars

(***************************************************************************)
(* RecheckSpec: the debounced recheck.  Trigger events arrive in bursts    *)
(* while buffer events are handled; Spec leaves out the re-arming of a     *)
(* pending timer, which changes nothing of the Workspace.                  *)
(***************************************************************************)
RecheckProcs == {"event", "recheck"}

RecheckNext ==
    \/ EvTrigger
    \/ EvTriggerAgain
    \/ TimerFire
    \/ \E b \in Bufs : CheckBuffer(b)
    \/ \E b \in Bufs : EvBufCreate(b)
    \/ \E b \in Bufs : EvBufUnload(b)
    \/ UnloadDetached
    \/ \E p \in RecheckProcs : OnBufCreateStep(p)

RecheckSpec == Init /\ [][RecheckNext]_vars

(***************************************************************************)
(* ChannelSpec: callers create output channels, under a new name or under  *)
(* the name of a channel that exists.                                      *)
(***************************************************************************)
ChannelNext ==
    \E n \in {ChanName(b, <<>>) : b \in ChanNames}
               \cup {e.name : e \in outputChannels} : CreateOutputChannel(n)

ChannelSpec == Init /\ [][ChannelNext]_vars

(***************************************************************************)
(* The properties.  Those about the edit API are stated over the finished  *)
(* call `ed` and the state `ed.pre` it was made in, under EditSpec; those  *)
(* about the buffer lifecycle under Spec; C7 under ConfigSpec.             *)
(***************************************************************************)

\* C1: an applyEdit whose validation (validteDocumentChanges or
\* validateChanges) reports a failure returns false without asking the user,
\* and no Document content, no file, no file system entry, no registry entry
\* and nothing of the argument list has changed.
C1_FailedValidationChangesNothing ==
    (ed.api = "applyEdit" /\ ed.valid = "fail") =>
        /\ ed.pc = "done"
        /\ ed.result = "false"
        /\ ~ed.asked
        /\ fs = ed.pre.fs
        /\ buflines = ed.pre.lines
        /\ arglist = ed.pre.args
        /\ Registered = ed.pre.reg

\* C1, its case: the document changes are all valid and would change
\* something, a uri of `changes` is not; false was returned
C1_Witness ==
    /\ ed.api = "applyEdit" /\ ed.valid = "fail" /\ ed.result = "false"
    /\ ed.edit.dc # <<>>
    /\ ValidateDocumentChanges(ed.pre.fs, ed.edit) = "ok"
    /\ ValidateChanges(ed.pre.fs, ed.edit) = "fail"

\* C2 (as stated): in every state each buffer id has at most one live
\* Document (initialized, not detached), and that Document is the one the
\* registry map `buffers` holds.
C2_OneLiveDocumentPerBuffer ==
    \A b \in Bufs :
        {d \in DocIds : docs[d].st = "live" /\ docs[d].buf = b}
            \subseteq {buffers[b]}

\* C3 (as stated): an onBufCreate(b) started while another onBufCreate(b) is
\* between its entry and its registering or abandoning is a no-op: it never
\* gets to construct a Document, touch the registry or fire a notification.
C3_SecondCallIsNoOp ==
    \A p \in Procs : ob[p].late => ob[p].pc \in {"idle", "bufloaded"}

\* C4 (as stated): when applyEdit returns true, none of its operations was
\* left undone.
C4_TrueMeansFullyApplied ==
    (ed.api = "applyEdit" /\ ed.result = "true") => ~ed.failed

\* C5 (as stated): applyEdit, createFile, renameFile and deleteFile never
\* throw or reject.
C5_EditApiNeverThrows ==
    ed.result # "threw"

\* C6 (as stated): every change of the root comes with exactly one
\* configuration reload and exactly one onDidChangeWorkspaceFolder
\* notification, and an onBufCreate that finds the root it resolved already
\* set fires neither.
C6_OneReloadAndNotificationPerRootChange ==
    /\ reloadsByRoot = rootChanges
    /\ folderFired = rootChanges

C8_RenameLeavesOneEntryWithNewPath ==
    \A b \in Bufs :
        (/\ ed.api = "renameFile" /\ ed.pc = "done" /\ ed.result = "void"
         /\ ~ed.failed
         /\ ed.op.uri.name # ed.op.newUri.name
         /\ ed.pre.reg[b] = ed.op.uri.name
         /\ RenameFileRes(ed.pre.fs, ed.pre.args, ed.op.uri, ed.op.newUri,
                          ed.op.overwrite, ed.op.ignore).renamed)
        => /\ buffers[b] # NoDoc
           /\ docs[buffers[b]].path = ed.op.newUri.name
           /\ \A c \in Bufs : Registered[c] # ed.op.uri.name
           /\ \A c \in Bufs \ {b} : Registered[c] # ed.op.newUri.name

\* C8 (amended): after renameFile(oldPath, newPath) renamed the file and the
\* buffer of a registered Document, the entries of the other buffers are as
\* before, and the buffer has: a new Document with the new path, the old
\* instance being detached (the re-run onBufCreate created it); or no entry,
\* the old instance being detached (document.init refused or threw); or
\* still the old Document instance (the editor answered that the buffer is
\* not loaded, so nothing was re-run).
C8_RenameReregistersOrDrops ==
    \A b \in Bufs :
        (/\ ed.api = "renameFile" /\ ed.pc = "done" /\ ed.result = "void"
         /\ ~ed.failed
         /\ ed.op.uri.name # ed.op.newUri.name
         /\ ed.pre.reg[b] = ed.op.uri.name
         /\ RenameFileRes(ed.pre.fs, ed.pre.args, ed.op.uri, ed.op.newUri,
                          ed.op.overwrite, ed.op.ignore).renamed)
        => /\ \A c \in Bufs \ {b} : buffers[c] = ed.pre.doc[c]
           /\ \/ /\ buffers[b] \notin {NoDoc, ed.pre.doc[b]}
                 /\ docs[buffers[b]] =
                       [st |-> "live", buf |-> b, path |-> ed.op.newUri.name,
                        version |-> buftick[b]]
                 /\ docs[ed.pre.doc[b]] = GoneDoc
              \/ /\ buffers[b] = NoDoc
                 /\ docs[ed.pre.doc[b]] = GoneDoc
              \/ /\ buffers[b] = ed.pre.doc[b]
                 /\ docs[buffers[b]].st = "live"

\* C8, its case: the file of buffer 1's Document was renamed and the re-run
\* onBufCreate registered a new Document under the new path
C8_Witness ==
    /\ ed.api = "renameFile" /\ ed.pc = "done" /\ ~ed.failed
    /\ ed.pre.reg[1] = ed.op.uri.name
    /\ ed.op.uri.name # ed.op.newUri.name
    /\ fs[ed.op.uri.name].kind = "none"
    /\ buffers[1] \notin {NoDoc, ed.pre.doc[1]}
    /\ docs[buffers[1]].path = ed.op.newUri.name

\* C9 (as stated): deleteFile on a non-empty directory removes it when the
\* recursive flag is set; without the flag it reports an error and the
\* directory stays.
C9_RecursiveDeleteRemovesDirectory ==
    (/\ ed.api = "deleteFile" /\ ed.pc = "done"
     /\ ed.pre.fs[ed.op.uri.name].kind = "dir"
     /\ ed.pre.fs[ed.op.uri.name].n > 0)
    => IF ed.op.recursive
       THEN fs[ed.op.uri.name].kind = "none"
       ELSE fs = ed.pre.fs /\ ed.msgs # {}

\* C10: createFile on a path that exists, without overwrite, writes nothing:
\* the file system, the buffers and the argument list are as before; it
\* shows the "already exists" error when ignoreIfExists is not set, and
\* nothing when it is.
C10_CreateExistingWritesNothing ==
    (/\ ed.api = "createFile" /\ ed.pc = "done"
     /\ Exists(ed.pre.fs, ed.op.uri)
     /\ ~ed.op.overwrite)
    => /\ fs = ed.pre.fs
       /\ arglist = ed.pre.args
       /\ buflines = ed.pre.lines
       /\ ed.result = "void"
       /\ ed.msgs = IF ed.op.ignore THEN {} ELSE {"already exists"}

\* C10, its case: createFile was called on an existing file with neither
\* flag and reported the error
C10_Witness ==
    /\ ed.api = "createFile" /\ ed.pc = "done"
    /\ ed.pre.fs[ed.op.uri.name].kind = "file" /\ ~ed.op.uri.slash
    /\ ~ed.op.overwrite /\ ~ed.op.ignore
    /\ ed.msgs = {"already exists"}

\* C11: applyEdit with text edits in `changes` for an existing file that is
\* not open as a Document (and no document changes) rewrites the file to its
\* previous content with the edits applied: the edited line is replaced,
\* every other line is as before; no other file changes and the registry is
\* as before.
C11_ChangesRewriteUnopenedFile ==
    \A n \in Names :
        (/\ ed.api = "applyEdit" /\ ed.result = "true"
         /\ ed.edit.changes = <<FileUri(n)>> /\ ed.edit.dc = <<>>
         /\ ed.pre.fs[n].kind = "file"
         /\ \A b \in Bufs : ed.pre.reg[b] # n)
        => /\ fs[n].kind = "file"
           /\ Len(fs[n].lines) = Len(ed.pre.fs[n].lines)
           /\ fs[n].lines[TheEdits[1].line] = TheEdits[1].text
           /\ \A i \in 1..Len(fs[n].lines) :
                 i # TheEdits[1].line => fs[n].lines[i] = ed.pre.fs[n].lines[i]
           /\ \A m \in Names \ {n} : fs[m] = ed.pre.fs[m]
           /\ Registered = ed.pre.reg
           /\ buffers = ed.pre.doc
           /\ buflines = ed.pre.lines

\* C11, its case: the unopened two-line file b was edited through `changes`
C11_Witness ==
    /\ ed.api = "applyEdit" /\ ed.result = "true"
    /\ ed.edit.changes = <<FileUri("b")>> /\ ed.edit.dc = <<>>
    /\ ed.pre.fs["b"].lines = <<"x", "y">>
    /\ fs["b"].lines = <<"z", "y">>
    /\ buffers[2] = NoDoc

\* C12 (as stated): a text-document-edit with a non-null version v (0
\* included) passes validation exactly when a Document with its uri is
\* registered and has version v; otherwise applyEdit returns false and
\* nothing has changed.
C12_VersionedEditNeedsMatchingDocument ==
    (/\ ed.api = "applyEdit"
     /\ ed.edit.changes = <<>> /\ Len(ed.edit.dc) = 1
     /\ ed.edit.dc[1].t = "edit" /\ ed.edit.dc[1].version # NullVersion)
    => LET o == ed.edit.dc[1]
           match == \E b \in Bufs : /\ ed.pre.reg[b] = o.uri.name
                                    /\ ed.pre.ver[b] = o.version
       IN  /\ (ed.valid = "ok") <=> match
           /\ ~match => /\ ed.result = "false"
                        /\ fs = ed.pre.fs /\ buflines = ed.pre.lines

\* C13 (as stated): a text-document-edit with a null version passes
\* validation exactly when its uri has the file scheme and the file exists,
\* open as a Document or not, and is then applied by rewriting the file;
\* otherwise applyEdit returns false.
C13_NullVersionEditNeedsExistingFile ==
    (/\ ed.api = "applyEdit" /\ ed.pc = "done"
     /\ ed.edit.changes = <<>> /\ Len(ed.edit.dc) = 1
     /\ ed.edit.dc[1].t = "edit" /\ ed.edit.dc[1].version = NullVersion)
    => LET o == ed.edit.dc[1]
           good == o.uri.scheme = "file" /\ Exists(ed.pre.fs, o.uri)
       IN  /\ (ed.valid = "ok") <=> good
           /\ ~good => ed.result = "false"
           /\ (good /\ ed.result = "true") =>
                 fs = WriteBack(ed.pre.fs, o.uri.name, TheEdits)

\* C14 (as stated): a create-file with a file uri passes validation exactly
\* when the path does not exist or overwrite or ignoreIfExists is set, and
\* applyEdit then goes on to create the file.
C14_CreateFileValidatedOnExistenceAndFlags ==
    (/\ ed.api = "applyEdit"
     /\ ed.edit.changes = <<>> /\ Len(ed.edit.dc) = 1
     /\ ed.edit.dc[1].t = "create" /\ ed.edit.dc[1].uri.scheme = "file")
    => LET o == ed.edit.dc[1]
       IN  (ed.valid = "ok") <=>
               (~Exists(ed.pre.fs, o.uri) \/ o.overwrite \/ o.ignore)

\* C15 (as stated): a validated edit that targets at least one file that is
\* not open as a Document (through `changes` or through any document change)
\* makes applyEdit ask for confirmation before any mutation, and a declined
\* call returns false with nothing changed; when no target is such a file
\* no confirmation is requested.
C15_ConfirmWhenAnyTargetUnopened ==
    (ed.api = "applyEdit" /\ ed.valid = "ok") =>
        LET e == ed.edit
            targets == {e.changes[i] : i \in 1..Len(e.changes)}
                           \cup {e.dc[j].uri : j \in 1..Len(e.dc)}
            unopened == \E u \in targets :
                            /\ ed.pre.fs[u.name].kind = "file"
                            /\ \A b \in Bufs : ed.pre.reg[b] # u.name
        IN  /\ ed.pc = "confirm" =>
                 fs = ed.pre.fs /\ buflines = ed.pre.lines /\ arglist = ed.pre.args
            /\ ed.pc # "confirm" => (ed.asked <=> unopened)
            /\ (ed.asked /\ ed.result = "false") =>
                 fs = ed.pre.fs /\ buflines = ed.pre.lines /\ arglist = ed.pre.args

\* C15 (amended): a validated edit with text edits for a file that is not
\* open as a Document (a file uri of `changes` without a registered
\* Document, or a text-document-edit with a null version) makes applyEdit
\* ask for confirmation, once and before any mutation; a declined call
\* returns false with nothing changed.  No other edit asks: the files that
\* only create-file, rename-file and delete-file operations touch, and uris
\* of `changes` with another scheme, are not counted.
C15_ConfirmWhenTextTargetUnopened ==
    (ed.api = "applyEdit" /\ ed.valid = "ok") =>
        LET e == ed.edit
            unopened ==
                \/ \E i \in 1..Len(e.changes) :
                      /\ e.changes[i].scheme = "file"
                      /\ \A b \in Bufs : ed.pre.reg[b] # e.changes[i].name
                \/ \E j \in 1..Len(e.dc) :
                      e.dc[j].t = "edit" /\ e.dc[j].version = NullVersion
        IN  /\ ed.pc = "confirm" =>
                 /\ ~ed.asked
                 /\ fs = ed.pre.fs /\ buflines = ed.pre.lines
                 /\ arglist = ed.pre.args
            /\ ed.pc # "confirm" => (ed.asked <=> unopened)
            /\ (ed.asked /\ ed.result = "false") =>
                 fs = ed.pre.fs /\ buflines = ed.pre.lines /\ arglist = ed.pre.args

\* C15, its case: the edit changes the unopened file b through `changes`
\* and carries a document change; the user was asked and declined
C15_Witness ==
    /\ ed.api = "applyEdit" /\ ed.valid = "ok"
    /\ ed.edit.changes = <<FileUri("b")>> /\ ed.edit.dc # <<>>
    /\ ed.asked /\ ed.pc = "done" /\ ed.result = "false"

\* C16: onBufUnload(b) for a registered buffer removes the entry from the
\* registry before it awaits detach, and when detach is done the Document is
\* detached and exactly one close notification is fired for it; the
\* registry is not touched again.  (Without an entry the handler leaves
\* every variable as it is.)
C16_UnloadRemovesDetachesNotifiesOnce ==
    [][/\ unl.pc = "detach" =>
             /\ docs[unl.doc].st = "detaching"
             /\ \A b \in Bufs : buffers[b] # unl.doc
       /\ (unl.pc = "idle" /\ unl'.pc = "detach") =>
             /\ \E b \in Bufs : buffers[b] = unl'.doc /\ buffers'[b] = NoDoc
             /\ docs[unl'.doc].st = "live"
             /\ closeFired' = closeFired
       /\ (unl.pc = "detach" /\ unl'.pc = "idle") =>
             /\ docs'[unl.doc] = GoneDoc
             /\ closeFired' = closeFired + 1
             /\ buffers' = buffers
      ]_vars

\* C16, its case: the only Document ever constructed was registered, then
\* unloaded by onBufUnload: detached, one close notification fired
C16_Witness ==
    /\ nextDoc = 2 /\ docs[1] = GoneDoc
    /\ openFired = 1 /\ closeFired = 1
    /\ unl.pc = "idle"
    /\ \A b \in Bufs : buffers[b] = NoDoc

\* C17 (as stated): when document.init reports "not created" or throws,
\* onBufCreate ends (without throwing) with no registry entry for the
\* buffer id and without firing an open notification.
C17_FailedInitLeavesNoEntry ==
    [][\A p \in Procs :
          (ob[p].pc = "init" /\ docs'[ob[p].doc] = GoneDoc) =>
              /\ ob'[p].pc = "idle"
              /\ buffers'[ob[p].buf] = NoDoc
              /\ openFired' = openFired
      ]_vars

\* C18: an onBufCreate that finds a registered Document for its buffer id
\* first unloads it: the entry is removed, the Document detached and its
\* close notification fired; only then is the fresh Document constructed,
\* and the open notification of the call comes after that close.
C18_OldDocumentUnloadedBeforeFresh ==
    [][\A p \in Procs :
          /\ (ob[p].pc = "bufloaded" /\ ob'[p].pc = "init") =>
                buffers[ob[p].buf] = NoDoc
          /\ (ob[p].pc = "bufloaded" /\ ob'[p].pc = "unload") =>
                /\ buffers[ob[p].buf] = ob'[p].old
                /\ buffers'[ob[p].buf] = NoDoc
                /\ nextDoc' = nextDoc
          /\ ob[p].pc = "unload" =>
                /\ docs[ob[p].old].st = "detaching"
                /\ \A b \in Bufs : buffers[b] # ob[p].old
          /\ (ob[p].pc = "unload" /\ ob'[p].pc # "unload") =>
                /\ ob'[p].pc = "init"
                /\ docs'[ob[p].old] = GoneDoc
                /\ closeFired' = closeFired + 1
                /\ openFired' = openFired
                /\ docs[ob'[p].doc] = FreeDoc
                /\ docs'[ob'[p].doc] = NewDoc(ob[p].buf)
          /\ (ob[p].old # NoDoc /\ ob[p].pc \in {"init", "findup"}) =>
                /\ docs[ob[p].old] = GoneDoc
                /\ closeFired >= 1
      ]_vars

\* C18, its case: a call found a registered Document, unloaded it and now
\* awaits the init of the fresh one
C18_Witness ==
    \E p \in Procs :
        /\ ob[p].pc = "init" /\ ob[p].old # NoDoc
        /\ docs[ob[p].old] = GoneDoc
        /\ docs[ob[p].doc].st = "init"
        /\ closeFired >= 1

\* C19 (as stated): lifecycle handlers never overlap: at most one handler
\* call chain (an onBufCreate of any caller, or onBufUnload) is under way.
C19_HandlersNeverOverlap ==
    Cardinality({p \in Procs : ob[p].pc # "idle"})
        + (IF unl.pc # "idle" THEN 1 ELSE 0) <= 1

\* C20 (as stated): a stack that readers have seen is never changed in
\* place: asked when the change event is delivered, the stack that was
\* replaced still answers, for every section and resource, what it answered
\* while it was the current one, its folder fragments included.
C20_ReplacedStackKeepsItsValues ==
    lastChange.fired => lastChange.before = lastChange.seen

\* C21 (as stated): after a reload each of the default, user and workspace
\* layers of the new stack is the parsed content of its file on disk at the
\* time of the reload; a changed plugin settings file shows in the defaults
\* layer.
C21_ReloadRebuildsEveryLayerFromDisk ==
    [][lastChange' # lastChange =>
          /\ conf'.defaults = ParseContentFromFile(disk.default)
          /\ conf'.user = ParseContentFromFile(disk.user)
          /\ conf'.workspace =
                IF VimDir(root') # Null /\ VimDir(root') # Home
                THEN ParseContentFromFile(disk.ws[VimDir(root')])
                ELSE EmptyLayer
      ]_vars

\* C22 (as stated): while the workspace has not finished initializing, an
\* onBufCreate that registers a file-backed Document whose directory lies
\* under the current root, the root not being the home directory, does not
\* recompute the root: it ends without going on to set one, and the root
\* stays as it is.
C22_NoRootRecomputeBeforeInitialized ==
    [][\A p \in Procs :
          (/\ ob[p].pc = "init" /\ ob'[p].pc # "init"
           /\ docs'[ob[p].doc].st = "live"
           /\ ~initialized
           /\ root # Home
           /\ Under(DirOf(bufname[ob[p].buf]), root))
          => /\ ob'[p].pc = "idle"
             /\ root' = root
      ]_vars

C24_ChannelsNeverOverwritten ==
    /\ \A i \in 1..Len(channelsMade) :
          [name |-> channelsMade[i], ch |-> i] \in outputChannels
    /\ Cardinality(outputChannels) = Len(channelsMade)

\* C24, its case: three channels were asked for under the same name; the
\* second and the third got a token appended
C24_Witness ==
    /\ Len(channelsMade) >= 3
    /\ channelsMade[1].sfx = <<>>
    /\ channelsMade[2] = ChanName(channelsMade[1].base, <<2>>)
    /\ channelsMade[3] = ChanName(channelsMade[1].base, <<3>>)
    /\ Cardinality(outputChannels) = Len(channelsMade)

\* C25 (as stated): in applyEdit every text-document-edit with a version is
\* applied to a Document that is registered under its uri and has that
\* version at the moment the edit is applied, whatever ran or was applied
\* since the validation.
C25_VersionedEditAppliedToGuardedVersion ==
    [][(/\ ed.pc = "dc" /\ ed' # ed
        /\ ed.edit.dc[ed.j].t = "edit"
        /\ ed.edit.dc[ed.j].version # NullVersion)
       => LET o == ed.edit.dc[ed.j] IN
          /\ GetDocumentUri(o.uri) # NoDoc
          /\ docs[GetDocumentUri(o.uri)].version = o.version
      ]_vars

\* C26 (as stated): for each buffer id the open and close notifications
\* alternate, starting with an open: when an onBufCreate fires the open of
\* its Document, the close of that Document has not been fired already, and
\* no other Document of the buffer has had its open delivered without its
\* close (the Document replaced was closed first).
C26_OpenCloseAlternatePerBuffer ==
    [][\A p \in Procs :
          (/\ openFired' = openFired + 1
           /\ ob[p].pc \in {"init", "findup"} /\ ob'[p].pc = "idle")
          => /\ docs[ob[p].doc] # GoneDoc
             /\ \A d \in DocIds \ {ob[p].doc} :
                   ~(/\ docs[d].buf = ob[p].buf
                     /\ docs[d].st \in {"live", "detaching"}
                     /\ \A q \in Procs :
                           ~(ob[q].doc = d /\ ob[q].pc = "findup"))
      ]_vars

\* C27 (as stated): the affectsConfiguration of a change event depends only
\* on the stacks before and after the reload that fired it: asked again
\* after a later reload or root change, it answers for every section and
\* resource what it answered when the event was fired.
C27_AffectsFixedWhenFired ==
    [][lastChange.fired =>
          \A s \in Sections, r \in Resources :
              AffectsConfiguration(lastChange.prev, conf', folders', s, r)
                  = lastChange.affects[s, r]
      ]_vars

\* C28 (as stated): after any number of reloads and root changes,
\* getConfigFile(Global) is the plugin's settings file, getConfigFile(User)
\* the user file, and getConfigFile(Workspace) the workspace file of the
\* current root, or nothing when there is none; never the file of another
\* layer.
C28_ConfigFileOfEachTarget ==
    /\ GetConfigFile(configFiles, "Global") = DefaultFile
    /\ GetConfigFile(configFiles, "User") = UserFile
    /\ GetConfigFile(configFiles, "Workspace") =
          IF VimDir(root) # Null /\ VimDir(root) # Home
          THEN WorkspaceFile(VimDir(root)) ELSE Null

\* C29 (as stated): onDidWorkspaceInitialized fires at most once over any
\* sequence of attach calls, `initialized` never returns to false, and
\* `initialized` is true whenever the notification has been delivered, also
\* for its listeners while they run.
C29_InitializedOnceAndSetWhenNotified ==
    [][/\ initFired' <= 1
       /\ initialized => initialized'
       /\ initFired' > 0 => initialized'
       /\ \A i \in 1..Len(initSeen') : initSeen'[i]
      ]_vars

\* C30: whenever no onBufCreate call is under way for buffer id b, b is not
\* in `creating`: every way out of onBufCreate (buffer not loaded, init
\* refused, exception, success) leaves the marker cleared, so a creation
\* that failed or was abandoned leaves nothing behind that would stop a
\* later onBufCreate(b).
C30_NoMarkerWithoutCall ==
    \A b \in Bufs :
        (\A p \in Procs : ob[p].pc = "idle" \/ ob[p].buf # b) => b \notin creating

\* C30, its case: a Document was constructed and its init refused or threw
\* (it is out of use and no close was ever fired); no call is under way, no
\* marker is left, and a later onBufCreate registered a Document
C30_Witness ==
    /\ docs[1] = GoneDoc /\ closeFired = 0
    /\ \A p \in Procs : ob[p].pc = "idle"
    /\ creating = {}
    /\ \E b \in Bufs : buffers[b] = 2 /\ docs[2].st = "live"

====
